---- MODULE Spec2Model ----
(***************************************************************************)
(* Model of the HealthImaging frame fetcher (fetcher_image/fetch.py): the  *)
(* enumeration of frame descriptors from the image-set metadata and the    *)
(* run of main() that fetches each frame, writes it to the output          *)
(* directory and assembles manifest.json.                                  *)
(*                                                                         *)
(* A Python dict is a sequence of [k, v] entries with distinct keys, in    *)
(* insertion order.  An optional key of a JSON object is a sequence of at  *)
(* most one element: <<>> when the key is missing, <<x>> when it is x.     *)
(***************************************************************************)
EXTENDS Integers, Sequences, FiniteSets, TLC

VARIABLES
    pc,             \* position of main()
    image_set,      \* the metadata document the remote store holds
    max_frames,     \* args.max_frames
    metadata,       \* main's local `metadata`: <<>> until assigned
    frame_ids,      \* main's local `frame_ids`
    manifest,       \* main's local `manifest`: <<>> until assigned
    i,              \* 1-based position of the loop of lines 189-213
    frame_data,     \* main's local `frame_data`: <<>> or <<bytes>>
    payload_files,  \* outputDir: payload file name -> content
    metadata_json,  \* outputDir/metadata.json: "absent", "partial", "written"
    manifest_json,  \* outputDir/manifest.json: <<>> or <<[complete, data]>>
    log,            \* remote calls and file writes, in the order they happened
    raised,         \* the statement whose exception left main(), "" if none
    exit_code,      \* <<>> while running, then <<code>>
    event,          \* the event put on the event bus
    trigger_pc,     \* where the event is: "bus", "handler", "dropped", "returned", "failed"
    executions,     \* the start_pipeline_execution calls that started an execution
    response        \* what the Lambda handler returned: <<>> or <<[statusCode, body]>>

vars == <<pc, image_set, max_frames, metadata, frame_ids, manifest, i,
          frame_data, payload_files, metadata_json, manifest_json, log,
          raised, exit_code, event, trigger_pc, executions, response>>

\* the state of the event trigger of app.py
Trigger == <<event, trigger_pc, executions, response>>

----------------------------------------------------------------------------
(* Bounds of the model.                                                    *)

\* number of frame references of a document received by a run of main()
MaxTokens == 3
\* largest --max-frames argument
MaxMaxFrames == 2
\* frame references of an instance, in the documents given to
\* extract_frame_ids alone
MaxRefs == 1

SeriesIds == {"s1", "s2"}
InstanceIds == {"i", "i_i"}
FrameIds == {"f", "i_f"}

DatastoreId == "ds"
ImageSetId == "is"

Min(a, b) == IF a < b THEN a ELSE b

----------------------------------------------------------------------------
(* Python helpers.                                                         *)

\* dict.get(key, default) for an optional key
Get(opt, default) == IF opt = <<>> THEN default ELSE opt[1]

\* truth value of the result of frame.get("ID"): None and "" are falsy
Truthy(opt) == opt # <<>> /\ opt[1] # ""

\* seq[-n:], the last n instead of the first n
Slice_tail(seq, n) == SubSeq(seq, Len(seq) - Min(n, Len(seq)) + 1, Len(seq))

\* seq[:n] for n > 0
Slice(seq, n) == SubSeq(seq, 1, Min(n, Len(seq)))

----------------------------------------------------------------------------
(* extract_frame_ids, lines 61-83.                                         *)

\* a loop over image_frames that takes the first frame of the instance only
FramesLoop_first(image_frames, series_id, instance_id, acc) ==
    IF image_frames = <<>> THEN acc
    ELSE IF Truthy(Head(image_frames).ID)
         THEN Append(acc, [frameId |-> Head(image_frames).ID[1],
                           seriesId |-> series_id,
                           instanceId |-> instance_id])
         ELSE acc

\* lines 73-80: the loop over image_frames
RECURSIVE FramesLoop(_, _, _, _)
FramesLoop(image_frames, series_id, instance_id, acc) ==
    IF image_frames = <<>> THEN acc
    ELSE LET frame == Head(image_frames)
             frame_id == frame.ID
         IN FramesLoop(Tail(image_frames), series_id, instance_id,
                IF Truthy(frame_id)
                THEN Append(acc, [frameId |-> frame_id[1],
                                  seriesId |-> series_id,
                                  instanceId |-> instance_id])
                ELSE acc)

\* a loop over the instances that gives up at the first instance without
\* ImageFrames
RECURSIVE InstancesLoop_stop(_, _, _)
InstancesLoop_stop(instances, series_id, acc) ==
    IF instances = <<>> THEN acc
    ELSE IF Head(instances).v.ImageFrames = <<>> THEN acc
    ELSE InstancesLoop_stop(Tail(instances), series_id,
             FramesLoop(Head(instances).v.ImageFrames[1], series_id,
                        Head(instances).k, acc))

\* lines 71-72: the loop over instances.items()
RECURSIVE InstancesLoop(_, _, _)
InstancesLoop(instances, series_id, acc) ==
    IF instances = <<>> THEN acc
    ELSE LET instance_id == Head(instances).k
             instance_data == Head(instances).v
             image_frames == Get(instance_data.ImageFrames, <<>>)
         IN InstancesLoop(Tail(instances), series_id,
                FramesLoop(image_frames, series_id, instance_id, acc))

\* a loop over the series in another order than that of the document: the
\* last series first
RECURSIVE SeriesLoop_reversed(_, _)
SeriesLoop_reversed(series_dict, acc) ==
    IF series_dict = <<>> THEN acc
    ELSE InstancesLoop(Get(Head(series_dict).v.Instances, <<>>), Head(series_dict).k,
                       SeriesLoop_reversed(Tail(series_dict), acc))

\* lines 69-70: the loop over series_dict.items()
RECURSIVE SeriesLoop(_, _)
SeriesLoop(series_dict, acc) ==
    IF series_dict = <<>> THEN acc
    ELSE LET series_id == Head(series_dict).k
             series_data == Head(series_dict).v
             instances == Get(series_data.Instances, <<>>)
         IN SeriesLoop(Tail(series_dict), InstancesLoop(instances, series_id, acc))

extract_frame_ids(md) ==
    LET study == Get(md.Study, [Series |-> <<>>])
        series_dict == Get(study.Series, <<>>)
    IN SeriesLoop(series_dict, <<>>)

----------------------------------------------------------------------------
(* The metadata documents.                                                 *)

Opt(S) == {<<>>} \cup {<<x>> : x \in S}

Keys(d) == {d[j].k : j \in 1..Len(d)}

\* d[key] = val on a dict: a new key goes last, an old key keeps its place
DictSet(d, key, val) ==
    IF key \in Keys(d)
    THEN [j \in 1..Len(d) |-> IF d[j].k = key THEN [k |-> key, v |-> val] ELSE d[j]]
    ELSE Append(d, [k |-> key, v |-> val])

DictGet(d, key, default) ==
    IF key \in Keys(d) THEN (CHOOSE e \in {d[j] : j \in 1..Len(d)} : e.k = key).v
    ELSE default

\* One frame reference of a document, with the series and instance it is in
Tokens == [s : SeriesIds, n : InstanceIds, f : FrameIds]

AddFrame(series_dict, t) ==
    LET instances == Get(DictGet(series_dict, t.s, [Instances |-> <<<<>>>>]).Instances, <<>>)
        frames == Get(DictGet(instances, t.n, [ImageFrames |-> <<<<>>>>]).ImageFrames, <<>>)
        frames2 == Append(frames, [ID |-> <<t.f>>])
        instances2 == DictSet(instances, t.n, [ImageFrames |-> <<frames2>>])
    IN DictSet(series_dict, t.s, [Instances |-> <<instances2>>])

RECURSIVE SeriesOfTokens(_, _)
SeriesOfTokens(toks, series_dict) ==
    IF toks = <<>> THEN series_dict
    ELSE SeriesOfTokens(Tail(toks), AddFrame(series_dict, Head(toks)))

Document(series_dict) == [Study |-> <<[Series |-> <<series_dict>>]>>]

\* The documents a run of main() receives: every document of at most
\* MaxTokens frame references, all of them with an ID
RunDocuments ==
    {Document(SeriesOfTokens(toks, <<>>)) :
        toks \in UNION {[1..n -> Tokens] : n \in 0..MaxTokens}}

\* The documents given to extract_frame_ids alone: any key may be missing,
\* a frame may have no ID or an empty one
FrameRefs == {[ID |-> o] : o \in Opt({"", "f"})}
FrameSeqs == UNION {[1..n -> FrameRefs] : n \in 0..MaxRefs}
InstanceDatas == {[ImageFrames |-> o] : o \in Opt(FrameSeqs)}

\* the dicts over some of the keys, in every insertion order
DictsOf(keys, values) ==
    {d \in UNION {[1..n -> [k : keys, v : values]] : n \in 0..Cardinality(keys)} :
        \A a, b \in 1..Len(d) : d[a].k = d[b].k => a = b}

SeriesDatas == {[Instances |-> o] : o \in Opt(DictsOf(InstanceIds, InstanceDatas))}
Studies == {[Series |-> o] : o \in Opt(DictsOf(SeriesIds, SeriesDatas))}
EnumDocuments == {[Study |-> o] : o \in Opt(Studies)}

----------------------------------------------------------------------------
(* fetch_image_frame, save_frame, the manifest records.                    *)

\* the bytes the remote store holds for a frame (response["imageFrameBlob"])
ImageFrameBlob(frame_id) == IF frame_id = "f" THEN <<1>> ELSE <<2, 2>>

\* a file name built from the series and the frame only
Filename_no_instance(frame_info) ==
    frame_info.seriesId \o "_" \o frame_info.frameId \o ".htj2k"

\* line 104
Filename(frame_info) ==
    frame_info.seriesId \o "_" \o frame_info.instanceId \o "_"
        \o frame_info.frameId \o ".htj2k"

\* open(filepath, "wb") creates the file or truncates it; f.write fills it
WriteFile(files, name, content) ==
    [n \in DOMAIN files \cup {name} |-> IF n = name THEN content ELSE files[n]]

\* lines 202-206
SuccessRecord(frame_info, name, data) ==
    [frameId |-> frame_info.frameId, seriesId |-> frame_info.seriesId,
     instanceId |-> frame_info.instanceId, filename |-> name, size |-> Len(data)]

\* a record of a failure that keeps the name of the file it was to write
ErrorRecord_with_filename(frame_info, e) ==
    [frameId |-> frame_info.frameId, seriesId |-> frame_info.seriesId,
     instanceId |-> frame_info.instanceId, filename |-> Filename(frame_info),
     error |-> e]

\* lines 210-213
ErrorRecord(frame_info, e) ==
    [frameId |-> frame_info.frameId, seriesId |-> frame_info.seriesId,
     instanceId |-> frame_info.instanceId, error |-> e]

\* lines 182-187
NewManifest(ids) ==
    [datastoreId |-> DatastoreId, imageSetId |-> ImageSetId,
     totalFrames |-> Len(ids), frames |-> <<>>]

\* an except block that logs the failure and records nothing
AppendFrame_skip_errors(m, rec) ==
    IF "error" \in DOMAIN rec THEN m ELSE [m EXCEPT !.frames = Append(@, rec)]

AppendFrame(m, rec) == [m EXCEPT !.frames = Append(@, rec)]

Event(op, arg) == [op |-> op, arg |-> arg]

\* a loop that takes the same descriptor again
LoopNext_stay(idx, ids) == idx

\* an except block that ends with `break`
LoopNext_break(idx, ids) == Len(ids) + 1

\* line 189: the for loop goes on to the next descriptor, also after the
\* except block of lines 208-213
LoopNext(idx, ids) == idx + 1

\* a loop that is left one descriptor early
LoopExhausted_early(idx, ids) == idx >= Len(ids)

\* line 189, 216: the loop is left, and the manifest saved, after the last descriptor
LoopExhausted(idx, ids) == idx > Len(ids)

\* a return value that reports the failed frames
ReturnValue_failures(m) ==
    IF \E j \in 1..Len(m.frames) : "error" \in DOMAIN m.frames[j] THEN 1 ELSE 0

\* line 219
ReturnValue(m) == 0

\* dummy_train.py line 52: manifest.get('totalFrames', 0) of the parsed manifest
TrainingFrameCount(m) == m.totalFrames

----------------------------------------------------------------------------
(* main, lines 121-219.                                                    *)

\* an exception that is logged and swallowed: main() ends with 0
Abort_exit0(stmt) ==
    /\ pc' = "done"
    /\ raised' = stmt
    /\ exit_code' = <<0>>

\* an exception leaves main(): the interpreter prints it and exits with 1
Abort(stmt) ==
    /\ pc' = "done"
    /\ raised' = stmt
    /\ exit_code' = <<1>>

Locals == <<metadata, frame_ids, manifest, i, frame_data>>
Args == <<image_set, max_frames>>
Files == <<payload_files, metadata_json, manifest_json>>

\* lines 155-156: output_path.mkdir(parents=True, exist_ok=True)
MakeOutputDir ==
    /\ pc = "mkdir"
    /\ \/ pc' = "client" /\ UNCHANGED <<raised, exit_code>>
       \/ Abort("mkdir")
    /\ UNCHANGED <<Trigger, Args, Locals, Files, log>>

\* line 163: get_medical_imaging_client
CreateClient ==
    /\ pc = "client"
    /\ \/ pc' = "get_metadata" /\ UNCHANGED <<raised, exit_code>>
       \/ Abort("client")
    /\ UNCHANGED <<Trigger, Args, Locals, Files, log>>

\* line 166, get_image_set_metadata (lines 45-58): the remote call, then
\* gzip.decompress and json.loads
GetImageSetMetadata ==
    /\ pc = "get_metadata"
    /\ \/ /\ metadata' = <<image_set>>
          /\ log' = Append(log, Event("get_image_set_metadata", 0))
          /\ pc' = "write_metadata"
          /\ UNCHANGED <<raised, exit_code>>
       \/ /\ Abort("get_image_set_metadata")           \* the remote call raises
          /\ log' = Append(log, Event("get_image_set_metadata", 0))
          /\ UNCHANGED metadata
       \/ /\ Abort("decode")                           \* decompress or loads raises
          /\ log' = Append(log, Event("get_image_set_metadata", 0))
          /\ UNCHANGED metadata
    /\ UNCHANGED <<Trigger, Args, frame_ids, manifest, i, frame_data, Files>>

\* lines 169-172: metadata.json
SaveMetadata ==
    /\ pc = "write_metadata"
    /\ \/ /\ metadata_json' = "written"
          /\ log' = Append(log, Event("write_metadata", 0))
          /\ pc' = "extract"
          /\ UNCHANGED <<raised, exit_code>>
       \/ /\ Abort("open_metadata")                    \* open raises: no file
          /\ UNCHANGED <<metadata_json, log>>
       \/ /\ Abort("dump_metadata")                    \* json.dump raises: a cut file
          /\ metadata_json' = "partial"
          /\ log' = Append(log, Event("write_metadata", 0))
    /\ UNCHANGED <<Trigger, Args, Locals, payload_files, manifest_json>>

\* line 175
ExtractFrameIds ==
    /\ pc = "extract"
    /\ frame_ids' = extract_frame_ids(metadata[1])
    /\ pc' = "truncate"
    /\ UNCHANGED <<Trigger, Args, metadata, manifest, i, frame_data, Files, log, raised, exit_code>>

\* lines 177-187: the max_frames cut and the new manifest
Truncate ==
    /\ pc = "truncate"
    /\ frame_ids' = IF max_frames > 0 THEN Slice(frame_ids, max_frames) ELSE frame_ids
    /\ manifest' = <<NewManifest(frame_ids')>>
    /\ i' = 1
    /\ pc' = "loop"
    /\ UNCHANGED <<Trigger, Args, metadata, frame_data, Files, log, raised, exit_code>>

\* lines 193-198 of the loop body: fetch_image_frame
FetchFrame ==
    LET called == Append(log, Event("get_image_frame", i)) IN
    /\ pc = "loop"
    /\ ~LoopExhausted(i, frame_ids)
    /\ \/ /\ log' = called
          /\ frame_data' = <<ImageFrameBlob(frame_ids[i].frameId)>>
          /\ pc' = "save"
          /\ UNCHANGED <<manifest, i>>
       \/ /\ log' = Append(called, Event("exception", i))
          /\ manifest' = <<AppendFrame(manifest[1], ErrorRecord(frame_ids[i], "get_image_frame"))>>
          /\ i' = LoopNext(i, frame_ids)               \* lines 208-213
          /\ UNCHANGED <<pc, frame_data>>
    /\ UNCHANGED <<Trigger, Args, metadata, frame_ids, Files, raised, exit_code>>

\* lines 200-206 of the loop body: save_frame (lines 101-110) and the record
SaveFrame ==
    /\ pc = "save"
    /\ LET frame_info == frame_ids[i]
           name == Filename(frame_info)
           data == frame_data[1]
       IN \/ /\ payload_files' = WriteFile(payload_files, name, data)
             /\ log' = Append(log, Event("write_frame", i))
             /\ manifest' = <<AppendFrame(manifest[1], SuccessRecord(frame_info, name, data))>>
          \/ /\ UNCHANGED payload_files                \* open raises: no file
             /\ log' = Append(log, Event("exception", i))
             /\ manifest' = <<AppendFrame(manifest[1], ErrorRecord(frame_info, "open"))>>
          \/ \E n \in 0..(Len(data) - 1) :             \* f.write raises: a cut file
             /\ payload_files' = WriteFile(payload_files, name, SubSeq(data, 1, n))
             /\ log' = Append(Append(log, Event("write_frame", i)), Event("exception", i))
             /\ manifest' = <<AppendFrame(manifest[1], ErrorRecord(frame_info, "write"))>>
    /\ i' = LoopNext(i, frame_ids)
    /\ pc' = "loop"
    /\ UNCHANGED <<Trigger, Args, metadata, frame_ids, frame_data, metadata_json, manifest_json,
                   raised, exit_code>>

\* line 216, save_manifest (lines 113-118)
SaveManifest ==
    /\ pc = "loop"
    /\ LoopExhausted(i, frame_ids)
    /\ \/ /\ manifest_json' = <<[complete |-> TRUE, data |-> manifest[1]]>>
          /\ log' = Append(log, Event("write_manifest", 0))
          /\ pc' = "return"
          /\ UNCHANGED <<raised, exit_code>>
       \/ /\ Abort("open_manifest")                    \* open raises: no file
          /\ UNCHANGED <<manifest_json, log>>
       \/ /\ Abort("dump_manifest")                    \* json.dump raises: a cut file
          /\ manifest_json' = <<[complete |-> FALSE, data |-> manifest[1]]>>
          /\ log' = Append(log, Event("write_manifest", 0))
    /\ UNCHANGED <<Trigger, Args, Locals, payload_files, metadata_json>>

\* lines 218-219, 223: return 0, sys.exit(0)
Return ==
    /\ pc = "return"
    /\ pc' = "done"
    /\ exit_code' = <<ReturnValue(manifest[1])>>
    /\ UNCHANGED <<Trigger, Args, Locals, Files, log, raised>>

\* no event is under way
NoEvent == [source |-> "", detail_type |-> "", detail |-> <<>>]

InitFetch ==
    /\ frame_ids = <<>>
    /\ manifest = <<>>
    /\ i = 0
    /\ frame_data = <<>>
    /\ payload_files = <<>>
    /\ metadata_json = "absent"
    /\ manifest_json = <<>>
    /\ log = <<>>
    /\ raised = ""
    /\ exit_code = <<>>

InitRest ==
    /\ event = NoEvent
    /\ trigger_pc = "idle"
    /\ executions = <<>>
    /\ response = <<>>
    /\ InitFetch

\* main() is entered with parsed arguments and an empty output directory
Init ==
    /\ pc = "mkdir"
    /\ image_set \in RunDocuments
    /\ max_frames \in 0..MaxMaxFrames
    /\ metadata = <<>>
    /\ InitRest

Next ==
    \/ MakeOutputDir
    \/ CreateClient
    \/ GetImageSetMetadata
    \/ SaveMetadata
    \/ ExtractFrameIds
    \/ Truncate
    \/ FetchFrame
    \/ SaveFrame
    \/ SaveManifest
    \/ Return

Spec == Init /\ [][Next]_vars

\* extract_frame_ids alone, on every document of EnumDocuments
InitEnum ==
    /\ pc = "extract"
    /\ image_set \in EnumDocuments \cup RunDocuments
    /\ max_frames = 0
    /\ metadata = <<image_set>>
    /\ InitRest

NextEnum == ExtractFrameIds

SpecEnum == InitEnum /\ [][NextEnum]_vars

TypeOK == pc \in {"mkdir", "client", "get_metadata", "write_metadata", "extract",
                  "truncate", "loop", "save", "return", "done"}

----------------------------------------------------------------------------
(* The event trigger of app.py: the EventBridge rule of lines 181-195 and  *)
(* the Lambda handler of lines 235-261 it targets (line 266).              *)

EventSources == {"aws.medical-imaging", "aws.s3"}
EventDetailTypes == {"HealthImaging ImageSet State Change", "AWS API Call via CloudTrail"}
ImageSetStates == {"ACTIVE", "active", "LOCKED", "DELETED"}
EventImageSetIds == {"", "is1"}
EventDatastoreIds == {"", "ds1"}

EventDetails ==
    [state : Opt(ImageSetStates),
     imageSetId : Opt(EventImageSetIds),
     datastoreId : Opt(EventDatastoreIds),
     eventSource : Opt({"medical-imaging.amazonaws.com"}),
     eventName : Opt({"StartDICOMImportJob"})]

Events == [source : EventSources, detail_type : EventDetailTypes, detail : Opt(EventDetails)]

\* lines 170-177: the CloudTrail pattern, which the stack builds and gives to no rule
event_pattern ==
    [source |-> {"aws.medical-imaging"},
     detail_type |-> {"AWS API Call via CloudTrail"},
     detail |-> [eventSource |-> {"medical-imaging.amazonaws.com"},
                 eventName |-> {"StartDICOMImportJob"}]]

\* lines 181-187
event_pattern_native ==
    [source |-> {"aws.medical-imaging"},
     detail_type |-> {"HealthImaging ImageSet State Change"},
     detail |-> [state |-> {"ACTIVE"}]]

\* line 194: the pattern of the rule ahi-imageset-created-trigger
EventRulePattern == event_pattern_native

\* EventBridge: every field of the pattern is in the event, with one of the
\* listed values, compared exactly
Matches(pattern, ev) ==
    /\ ev.source \in pattern.source
    /\ ev.detail_type \in pattern.detail_type
    /\ \A f \in DOMAIN pattern.detail :
        /\ ev.detail # <<>>
        /\ ev.detail[1][f] # <<>>
        /\ ev.detail[1][f][1] \in pattern.detail[f]

\* config.py line 33, app.py lines 228, 238
PipelineName == "ahi-mlops-pipeline"

\* pipeline_definition.py lines 52-60: the parameters the pipeline declares
PipelineParameterNames == {"ImageSetId", "DatastoreId"}

\* line 246: not image_set_id or not datastore_id
MissingParameters(image_set_id, datastore_id) ==
    image_set_id = "" \/ datastore_id = ""

\* lines 251-258
StartRequest(image_set_id, datastore_id) ==
    [PipelineName |-> PipelineName,
     PipelineParameters |-> <<[Name |-> "ImageSetId", Value |-> image_set_id],
                              [Name |-> "DatastoreId", Value |-> datastore_id]>>,
     PipelineExecutionDescription |-> "Triggered by ImageSet " \o image_set_id]

TriggerRest == <<Args, metadata, frame_ids, manifest, i, frame_data, payload_files,
                 metadata_json, manifest_json, log, raised, exit_code, pc>>

\* lines 190-195, 266: the rule hands the events that match to the Lambda
DeliverEvent ==
    /\ trigger_pc = "bus"
    /\ trigger_pc' = IF Matches(EventRulePattern, event) THEN "handler" ELSE "dropped"
    /\ UNCHANGED <<event, executions, response, TriggerRest>>

\* lines 235-261: handler(event, context)
Handler ==
    /\ trigger_pc = "handler"
    /\ \/ /\ trigger_pc' = "failed"     \* lines 238-239: os.environ[...] or boto3.client raises,
          /\ UNCHANGED <<executions, response>>       \* before the event is looked at
       \/ LET detail == Get(event.detail, [state |-> <<>>, imageSetId |-> <<>>,
                                           datastoreId |-> <<>>, eventSource |-> <<>>,
                                           eventName |-> <<>>])
              image_set_id == Get(detail.imageSetId, "")
              datastore_id == Get(detail.datastoreId, "")
          IN IF MissingParameters(image_set_id, datastore_id)
             THEN /\ response' = <<[statusCode |-> 400, body |-> "Missing required parameters"]>>
                  /\ trigger_pc' = "returned"
                  /\ UNCHANGED executions
             ELSE \/ /\ executions' = Append(executions, StartRequest(image_set_id, datastore_id))
                     /\ response' = <<[statusCode |-> 200, body |-> "PipelineExecutionArn"]>>
                     /\ trigger_pc' = "returned"
                  \/ /\ trigger_pc' = "failed"     \* start_pipeline_execution raises
                     /\ UNCHANGED <<executions, response>>
    /\ UNCHANGED <<event, TriggerRest>>

\* an event is on the bus, no run of main() is under way
InitTrigger ==
    /\ event \in Events
    /\ trigger_pc = "bus"
    /\ executions = <<>>
    /\ response = <<>>
    /\ pc = "idle"
    /\ image_set = Document(<<>>)
    /\ max_frames = 0
    /\ metadata = <<>>
    /\ InitFetch

NextTrigger ==
    \/ DeliverEvent
    \/ Handler

SpecTrigger == InitTrigger /\ [][NextTrigger]_vars

----------------------------------------------------------------------------
(* Vocabulary of the properties.                                           *)

IsSuccessRecord(rec) ==
    /\ {"filename", "size"} \subseteq DOMAIN rec
    /\ "error" \notin DOMAIN rec

IsErrorRecord(rec) ==
    /\ "error" \in DOMAIN rec
    /\ "filename" \notin DOMAIN rec

\* the frame loop has run to its end
LoopCompleted ==
    /\ manifest # <<>>
    /\ pc \in {"loop", "return", "done"}
    /\ i > Len(frame_ids)

Logged(op) == {log[j].arg : j \in {a \in 1..Len(log) : log[a].op = op}}

\* positions at which fetch_image_frame or save_frame raised
FailedPositions == Logged("exception")

\* positions for which get_image_frame was called
AttemptedPositions == Logged("get_image_frame")

Frames == manifest[1].frames

\* The metadata document as a tree: its series, the instances of a series,
\* the frame references of an instance; a missing level has no children
SeriesOf(md) ==
    IF md.Study = <<>> THEN <<>>
    ELSE IF md.Study[1].Series = <<>> THEN <<>> ELSE md.Study[1].Series[1]

InstancesOf(series_data) ==
    IF series_data.Instances = <<>> THEN <<>> ELSE series_data.Instances[1]

RefsOf(instance_data) ==
    IF instance_data.ImageFrames = <<>> THEN <<>> ELSE instance_data.ImageFrames[1]

\* <<a, b, c>>: frame reference c of instance b of series a
Positions(md) ==
    UNION {UNION {{<<a, b, c>> : c \in 1..Len(RefsOf(InstancesOf(SeriesOf(md)[a].v)[b].v))} :
                  b \in 1..Len(InstancesOf(SeriesOf(md)[a].v))} :
           a \in 1..Len(SeriesOf(md))}

RefAt(md, p) == RefsOf(InstancesOf(SeriesOf(md)[p[1]].v)[p[2]].v)[p[3]]

HasId(ref) == ref.ID # <<>> /\ ref.ID[1] # ""

\* every frame reference of the document carries an identifier
WellFormed(md) == \A p \in Positions(md) : HasId(RefAt(md, p))

IdPositions(md) == {p \in Positions(md) : HasId(RefAt(md, p))}

\* document order: series, then instance, then frame reference
NotAfter(p, q) ==
    \/ p[1] < q[1]
    \/ p[1] = q[1] /\ p[2] < q[2]
    \/ p[1] = q[1] /\ p[2] = q[2] /\ p[3] <= q[3]

Rank(md, p) == Cardinality({q \in IdPositions(md) : NotAfter(q, p)})

DescriptorAt(md, p) ==
    [frameId |-> RefAt(md, p).ID[1],
     seriesId |-> SeriesOf(md)[p[1]].k,
     instanceId |-> InstancesOf(SeriesOf(md)[p[1]].v)[p[2]].k]

SameFrame(rec, d) ==
    /\ rec.frameId = d.frameId
    /\ rec.seriesId = d.seriesId
    /\ rec.instanceId = d.instanceId

----------------------------------------------------------------------------
\* C1: when the frame loop has run to its end, the manifest's frames list
\* has exactly one entry per descriptor of frame_ids (the enumeration after
\* the max_frames cut), and every entry is either a success record
\* (filename and size, no error) or an error record (error, no filename),
\* never both and never neither.
C1_OneRecordPerDescriptor ==
    LoopCompleted =>
        /\ Len(Frames) = Len(frame_ids)
        /\ \A j \in 1..Len(Frames) :
            /\ IsSuccessRecord(Frames[j]) \/ IsErrorRecord(Frames[j])
            /\ ~(IsSuccessRecord(Frames[j]) /\ IsErrorRecord(Frames[j]))
            /\ "error" \in DOMAIN Frames[j] \/ "filename" \in DOMAIN Frames[j]
            /\ ~("error" \in DOMAIN Frames[j] /\ "filename" \in DOMAIN Frames[j])

C1_Witness ==
    /\ LoopCompleted
    /\ Len(frame_ids) = 3
    /\ \E a, b \in 1..3 : IsSuccessRecord(Frames[a]) /\ IsErrorRecord(Frames[b])

\* C2: a failure of fetch_image_frame or save_frame at some positions does
\* not abort the batch: when the loop has run to its end every descriptor
\* was attempted, the entries at exactly the failing positions are error
\* records and the entries at all other positions are success records.
C2_FailureIsolation ==
    manifest # <<>> =>
        /\ pc = "done" => LoopCompleted        \* main() never ends inside the loop
        /\ FailedPositions \subseteq 1..Len(Frames)
        /\ \A j \in 1..Len(Frames) :
            /\ j \in FailedPositions => IsErrorRecord(Frames[j])
            /\ j \notin FailedPositions => IsSuccessRecord(Frames[j])
        /\ LoopCompleted =>
            /\ AttemptedPositions = 1..Len(frame_ids)
            /\ Len(Frames) = Len(frame_ids)

\* frame #2 of 3 fails, #1 and #3 succeed
C2_Witness ==
    /\ LoopCompleted
    /\ Len(frame_ids) = 3
    /\ FailedPositions = {2}
    /\ IsSuccessRecord(Frames[1])
    /\ IsErrorRecord(Frames[2])
    /\ IsSuccessRecord(Frames[3])

\* C3: with max_frames = 0 every enumerated descriptor is processed; with
\* max_frames = N > 0 exactly min(N, total) descriptors are processed, they
\* are the first min(N, total) of the enumeration, and the cut raises no
\* error and leaves no record for the discarded ones.
C3_Truncation ==
    manifest # <<>> =>
        LET all == extract_frame_ids(metadata[1])
            total == Len(all)
            kept == IF max_frames = 0 THEN total ELSE Min(max_frames, total)
        IN /\ Len(frame_ids) = kept
           /\ \A j \in 1..kept : frame_ids[j] = all[j]
           /\ AttemptedPositions \subseteq 1..kept
           /\ Len(Frames) <= kept
           /\ LoopCompleted => AttemptedPositions = 1..kept /\ Len(Frames) = kept

\* max_frames = 2 cuts an enumeration of three descriptors that differ
C3_Witness ==
    /\ LoopCompleted
    /\ max_frames = 2
    /\ Len(extract_frame_ids(metadata[1])) = 3
    /\ extract_frame_ids(metadata[1])[1] # extract_frame_ids(metadata[1])[3]
    /\ Len(Frames) = 2

\* max_frames larger than the enumeration keeps all of it
C3_WitnessShort ==
    /\ LoopCompleted
    /\ max_frames = 2
    /\ Len(extract_frame_ids(metadata[1])) = 1
    /\ Len(Frames) = 1

\* C4: for a well-formed document (every frame reference carries an
\* identifier) extract_frame_ids returns as many descriptors as the document
\* has frame references, summed over all series and all instances.
C4_DescriptorCount ==
    (pc = "truncate" /\ WellFormed(metadata[1])) =>
        Len(frame_ids) = Cardinality(Positions(metadata[1]))

\* two series, one of them with two instances, three frame references
C4_Witness ==
    /\ pc = "truncate"
    /\ WellFormed(metadata[1])
    /\ Len(SeriesOf(metadata[1])) = 2
    /\ \E a \in 1..2 : Len(InstancesOf(SeriesOf(metadata[1])[a].v)) = 2
    /\ Cardinality(Positions(metadata[1])) = 3
    /\ Len(frame_ids) = 3

\* C5: extract_frame_ids lists the descriptors in document order (series
\* in insertion order, then instances in insertion order, then frame
\* references in sequence order), and the j-th entry of the manifest carries
\* the frameId, seriesId and instanceId of the j-th enumerated descriptor.
C5_OrderPreserved ==
    /\ pc = "truncate" =>
        /\ Len(frame_ids) = Cardinality(IdPositions(metadata[1]))
        /\ \A p \in IdPositions(metadata[1]) :
              frame_ids[Rank(metadata[1], p)] = DescriptorAt(metadata[1], p)
    /\ manifest # <<>> =>
        \A j \in 1..Len(Frames) :
            /\ SameFrame(Frames[j], frame_ids[j])
            /\ \E p \in IdPositions(metadata[1]) :
                  /\ Rank(metadata[1], p) = j
                  /\ SameFrame(Frames[j], DescriptorAt(metadata[1], p))

\* the document lists series s2 before s1 and instance i_i before i
C5_Witness ==
    /\ LoopCompleted
    /\ Len(Frames) = 3
    /\ Frames[1].seriesId = "s2" /\ Frames[1].instanceId = "i_i"
    /\ Frames[2].seriesId = "s2" /\ Frames[2].instanceId = "i"
    /\ Frames[3].seriesId = "s1"

\* the events of the log with operation op, as positions of the log
At(op) == {a \in 1..Len(log) : log[a].op = op}

MetadataFailures == {"get_image_set_metadata", "decode"}

\* the statements of main() outside the try block of lines 190-213
OutsideBoundary ==
    {"mkdir", "client", "get_image_set_metadata", "decode", "open_metadata",
     "dump_metadata", "open_manifest", "dump_manifest"}

\* C6: when metadata resolution fails (the remote call raises, or
\* decompression or parsing raises) the run ends before any frame work:
\* neither metadata.json nor manifest.json is written, no frame is fetched
\* or written, and the exit code is not zero.
C6_MetadataFailureAborts ==
    raised \in MetadataFailures =>
        /\ pc = "done"
        /\ exit_code # <<>> /\ exit_code[1] # 0
        /\ metadata_json = "absent"
        /\ manifest_json = <<>>
        /\ DOMAIN payload_files = {}
        /\ AttemptedPositions = {}
        /\ At("write_metadata") = {} /\ At("write_manifest") = {} /\ At("write_frame") = {}
        /\ manifest = <<>> /\ frame_ids = <<>>

\* the document the remote store holds has frames, and the parse fails
C6_Witness ==
    /\ raised = "decode"
    /\ Len(extract_frame_ids(image_set)) = 3
    /\ pc = "done"

\* C7: main() exits with 0 whenever the frame loop has run to its end and
\* the manifest was saved, whatever number of frames failed, all of them
\* included; it exits with a nonzero code only when a statement outside the
\* try block raised (output directory, client, metadata resolution,
\* metadata.json, manifest.json).
C7_ExitCode ==
    pc = "done" =>
        /\ exit_code \in {<<0>>, <<1>>}
        /\ (LoopCompleted /\ raised \notin {"open_manifest", "dump_manifest"})
              => exit_code = <<0>>
        /\ exit_code # <<0>> => raised \in OutsideBoundary
        /\ exit_code = <<0>> => raised = "" /\ LoopCompleted /\ At("write_manifest") # {}

\* every one of three frames failed, and main() exits with 0
C7_Witness ==
    /\ pc = "done"
    /\ exit_code = <<0>>
    /\ Len(frame_ids) = 3
    /\ FailedPositions = {1, 2, 3}

\* C8, as the specification states it: after a run into an empty output
\* directory a descriptor recorded as an error has no payload file on disk,
\* and a descriptor recorded as a success has one.
C8_PayloadOnlyOnSuccess ==
    (pc = "done" /\ exit_code = <<0>>) =>
        \A j \in 1..Len(Frames) :
            /\ IsErrorRecord(Frames[j]) => Filename(frame_ids[j]) \notin DOMAIN payload_files
            /\ IsSuccessRecord(Frames[j]) => Filename(frame_ids[j]) \in DOMAIN payload_files

\* C9: metadata.json is written before the enumeration and before any
\* frame is fetched, whatever happens to the frames; manifest.json is
\* written at most once in a run, exactly once in a run that exits with 0,
\* only after the last descriptor has its record, and nothing is fetched or
\* written after it.
C9_WriteOrder ==
    /\ (pc \in {"extract", "truncate", "loop", "save", "return"} \/ manifest # <<>>) =>
        /\ metadata_json = "written"
        /\ Cardinality(At("write_metadata")) = 1
        /\ \A a \in At("write_metadata") :
              \A b \in At("get_image_frame") \cup At("write_frame") \cup At("write_manifest") :
                  a < b
    /\ pc \in {"mkdir", "client", "get_metadata", "write_metadata", "extract"} =>
        frame_ids = <<>> /\ manifest = <<>>
    /\ Cardinality(At("write_manifest")) <= 1
    /\ manifest_json # <<>> => At("write_manifest") # {}
    /\ At("write_manifest") # {} =>
        /\ At("write_manifest") = {Len(log)}
        /\ LoopCompleted
        /\ Len(Frames) = Len(frame_ids)
        /\ AttemptedPositions = 1..Len(frame_ids)
    /\ exit_code = <<0>> => Cardinality(At("write_manifest")) = 1

\* a run of three frames with a failure in it, ended with the one write of
\* the manifest
C9_Witness ==
    /\ exit_code = <<0>>
    /\ Len(frame_ids) = 3
    /\ FailedPositions = {1}
    /\ log[Len(log)].op = "write_manifest"
    /\ log[2].op = "write_metadata"

\* C10: in every manifest.json a run writes, totalFrames, the count the
\* training script reads back, equals the length of the frames list.
C10_TotalFrames ==
    manifest_json # <<>> =>
        /\ manifest_json[1].data.totalFrames = Len(manifest_json[1].data.frames)
        /\ TrainingFrameCount(manifest_json[1].data) = Len(manifest_json[1].data.frames)

\* three descriptors cut to two by max_frames, one of the two failed
C10_Witness ==
    /\ manifest_json # <<>>
    /\ manifest_json[1].complete
    /\ max_frames = 2
    /\ Len(extract_frame_ids(metadata[1])) = 3
    /\ manifest_json[1].data.totalFrames = 2
    /\ \E j \in 1..2 : IsErrorRecord(manifest_json[1].data.frames[j])

----------------------------------------------------------------------------
(* The order of the remote calls.                                          *)

\* the descriptors get_image_frame was called for, in the order of the calls
RECURSIVE CallsIn(_)
CallsIn(l) ==
    IF l = <<>> THEN <<>>
    ELSE IF l[1].op = "get_image_frame" THEN <<l[1].arg>> \o CallsIn(Tail(l))
    ELSE CallsIn(Tail(l))

Calls == CallsIn(log)

\* C13: the frames are processed one after another in enumeration order,
\* with one get_image_frame call per processed descriptor: the k-th call
\* of a run is for descriptor k, it is issued when exactly k-1 records are
\* in the manifest, the record of descriptor k is the k-th record, and no
\* descriptor, failed or not, is fetched a second time.
C13_SequentialFetch ==
    /\ \A k \in 1..Len(Calls) : Calls[k] = k
    /\ Len(Calls) <= Len(frame_ids)
    /\ manifest = <<>> => Calls = <<>>
    /\ manifest # <<>> =>
        /\ pc = "save" => (Len(Calls) = Len(Frames) + 1 /\ i = Len(Calls))
        /\ pc # "save" => Len(Calls) = Len(Frames)
        /\ \A j \in 1..Len(Frames) : SameFrame(Frames[j], frame_ids[j])
        /\ \A p \in FailedPositions :
              Cardinality({k \in 1..Len(Calls) : Calls[k] = p}) = 1

\* three descriptors, the second failed, the third was fetched after it
C13_Witness ==
    /\ pc = "save"
    /\ i = 3
    /\ Calls = <<1, 2, 3>>
    /\ Len(Frames) = 2
    /\ FailedPositions = {2}
    /\ IsSuccessRecord(Frames[1])

----------------------------------------------------------------------------
(* Missing levels of the metadata document.                                *)

\* the descriptors of series_id, and of one of its instances, in a list
OfSeries(ids, series_id) == {j \in 1..Len(ids) : ids[j].seriesId = series_id}

OfInstance(ids, series_id, instance_id) ==
    {j \in OfSeries(ids, series_id) : ids[j].instanceId = instance_id}

\* C14: extract_frame_ids takes a missing level of the document as having
\* no children and returns normally: a document without Study, or a study
\* without Series, gives the empty list; a series without Instances and an
\* instance without ImageFrames give no descriptor; and the frame
\* references of the other series and instances are all in the result.
C14_MissingLevels ==
    pc = "truncate" =>
        LET md == metadata[1] IN
        /\ raised = "" /\ exit_code = <<>>
        /\ md.Study = <<>> => frame_ids = <<>>
        /\ (md.Study # <<>> /\ md.Study[1].Series = <<>>) => frame_ids = <<>>
        /\ \A a \in 1..Len(SeriesOf(md)) :
            LET series == SeriesOf(md)[a] IN
            /\ series.v.Instances = <<>> => OfSeries(frame_ids, series.k) = {}
            /\ \A b \in 1..Len(InstancesOf(series.v)) :
                LET instance == InstancesOf(series.v)[b] IN
                /\ instance.v.ImageFrames = <<>> =>
                      OfInstance(frame_ids, series.k, instance.k) = {}
                /\ Cardinality(OfInstance(frame_ids, series.k, instance.k)) =
                      Cardinality({p \in IdPositions(md) : p[1] = a /\ p[2] = b})
        /\ \A p \in IdPositions(md) :
              \E j \in 1..Len(frame_ids) : frame_ids[j] = DescriptorAt(md, p)
        /\ Len(frame_ids) = Cardinality(IdPositions(md))

\* a series without Instances, then a series with an instance without
\* ImageFrames followed by an instance with one frame: one descriptor
C14_Witness ==
    /\ pc = "truncate"
    /\ Len(SeriesOf(metadata[1])) = 2
    /\ SeriesOf(metadata[1])[1].v.Instances = <<>>
    /\ Len(InstancesOf(SeriesOf(metadata[1])[2].v)) = 2
    /\ InstancesOf(SeriesOf(metadata[1])[2].v)[1].v.ImageFrames = <<>>
    /\ IdPositions(metadata[1]) = {<<2, 2, 1>>}
    /\ Len(frame_ids) = 1
    /\ frame_ids[1].frameId = "f"

\* a document without Study
C14_WitnessNoStudy ==
    /\ pc = "truncate"
    /\ metadata[1].Study = <<>>
    /\ frame_ids = <<>>

----------------------------------------------------------------------------
(* The payload files of the success entries.                               *)

\* <seriesId>_<instanceId>_<frameId>.htj2k, from the fields of an entry
PayloadName(rec) ==
    rec.seriesId \o "_" \o rec.instanceId \o "_" \o rec.frameId \o ".htj2k"

\* no two descriptors of the list give the same file name
DistinctFilenames(ids) ==
    \A a, b \in 1..Len(ids) : PayloadName(ids[a]) = PayloadName(ids[b]) => a = b

\* the file of a success entry: its name, its content, its length
PayloadMatches(rec) ==
    /\ rec.filename = PayloadName(rec)
    /\ rec.filename \in DOMAIN payload_files
    /\ payload_files[rec.filename] = ImageFrameBlob(rec.frameId)
    /\ Len(payload_files[rec.filename]) = rec.size

RunCompleted == pc = "done" /\ exit_code = <<0>>

\* C15, as stated: after a completed run every success entry names a file
\* that exists under the name built from the entry's own three fields and
\* holds the payload fetched for that entry, of the length the entry gives
\* as size, for every list of descriptors, lists with repeated frameIds or
\* repeated file names included.
C15_PayloadOfEveryEntry ==
    RunCompleted => \A j \in 1..Len(Frames) : IsSuccessRecord(Frames[j]) => PayloadMatches(Frames[j])

\* C15, amended: after a completed run over a list of descriptors no two
\* of which give the same file name, every success entry names a file that
\* exists under the name built from the entry's own three fields and holds
\* the payload fetched for that entry, of the length the entry gives as
\* size.
C15_PayloadOfDistinctNames ==
    (RunCompleted /\ DistinctFilenames(frame_ids)) =>
        \A j \in 1..Len(Frames) : IsSuccessRecord(Frames[j]) => PayloadMatches(Frames[j])

\* three descriptors with three file names and a repeated frameId: the
\* first and the third saved, with payloads of different lengths, the
\* write of the second failed
C15_Witness ==
    /\ RunCompleted
    /\ Len(frame_ids) = 3
    /\ DistinctFilenames(frame_ids)
    /\ frame_ids[1].frameId = frame_ids[2].frameId
    /\ IsSuccessRecord(Frames[1]) /\ IsErrorRecord(Frames[2]) /\ IsSuccessRecord(Frames[3])
    /\ Frames[1].size = 1 /\ Frames[3].size = 2
    /\ PayloadMatches(Frames[1]) /\ PayloadMatches(Frames[3])

\* two descriptors with one file name, both saved: the file holds the
\* payload of the second
C15_WitnessOverwrite ==
    /\ RunCompleted
    /\ Len(frame_ids) = 2
    /\ ~DistinctFilenames(frame_ids)
    /\ IsSuccessRecord(Frames[1]) /\ IsSuccessRecord(Frames[2])
    /\ ~PayloadMatches(Frames[1])
    /\ PayloadMatches(Frames[2])

----------------------------------------------------------------------------
(* The event trigger.                                                      *)

EventField(f) == IF event.detail = <<>> THEN <<>> ELSE event.detail[1][f]

ParameterValue(request, name) ==
    {request.PipelineParameters[j].Value :
        j \in {a \in 1..Len(request.PipelineParameters) :
                  request.PipelineParameters[a].Name = name}}

\* an identifier of the event is missing or empty
IdentifierMissing ==
    \/ EventField("imageSetId") \in {<<>>, <<"">>}
    \/ EventField("datastoreId") \in {<<>>, <<"">>}

\* the executions carry the two identifiers of the event, under the names
\* the pipeline declares, and there is none when an identifier is missing
ExecutionsCarryIdentifiers ==
    /\ \A j \in 1..Len(executions) :
        /\ {<<v>> : v \in ParameterValue(executions[j], "ImageSetId")} =
               {EventField("imageSetId")}
        /\ {<<v>> : v \in ParameterValue(executions[j], "DatastoreId")} =
               {EventField("datastoreId")}
        /\ {executions[j].PipelineParameters[a].Name :
               a \in 1..Len(executions[j].PipelineParameters)} = PipelineParameterNames
    /\ IdentifierMissing => executions = <<>>

\* C11, as the specification states it: every pipeline execution the
\* handler starts is given both ImageSetId and DatastoreId, each with the
\* value the event's detail carries; when either identifier is missing or
\* empty in the event the handler starts no execution and its invocation
\* ends with the response of status 400.
C11_TriggerParameters ==
    /\ ExecutionsCarryIdentifiers
    /\ (IdentifierMissing /\ trigger_pc \in {"returned", "failed"}) =>
        /\ trigger_pc = "returned"
        /\ response # <<>> /\ response[1].statusCode = 400

\* an execution was started for image set is1 of datastore ds1
C11_Witness ==
    /\ trigger_pc = "returned"
    /\ Len(executions) = 1
    /\ response[1].statusCode = 200
    /\ EventField("imageSetId") = <<"is1">>

\* the handler failed on an event without datastoreId, before its test
C11_WitnessSetupFailure ==
    /\ trigger_pc = "failed"
    /\ EventField("imageSetId") = <<"is1">>
    /\ EventField("datastoreId") = <<>>
    /\ executions = <<>>
    /\ response = <<>>

\* the handler got an event with an image set and no datastore
C11_WitnessMissing ==
    /\ trigger_pc = "returned"
    /\ EventField("imageSetId") = <<"is1">>
    /\ EventField("datastoreId") = <<>>
    /\ response[1].statusCode = 400

\* C12: only a notification of an image set in the active state (state
\* ACTIVE, as the rule spells it) starts a pipeline run: an event whose
\* state is anything else, or that has no state, starts no execution and
\* does not reach the handler.
C12_OnlyActiveStarts ==
    EventField("state") # <<"ACTIVE">> =>
        /\ executions = <<>>
        /\ trigger_pc \in {"bus", "dropped"}
        /\ response = <<>>

\* an event with both identifiers and another state was dropped
C12_Witness ==
    /\ trigger_pc = "dropped"
    /\ event.source = "aws.medical-imaging"
    /\ event.detail_type = "HealthImaging ImageSet State Change"
    /\ EventField("state") = <<"LOCKED">>
    /\ EventField("imageSetId") = <<"is1">>
    /\ EventField("datastoreId") = <<"ds1">>

\* an ACTIVE event started a run
C12_WitnessActive ==
    /\ EventField("state") = <<"ACTIVE">>
    /\ Len(executions) = 1

====
